---- MODULE Spec2Model ----
(***************************************************************************)
(* Additive secret shares of fixed-width integers (additive/additive.py).  *)
(*                                                                         *)
(* A share object is the record [value, exponent, signed].  A Python int   *)
(* that meets a share in an expression (the 0 that sum() starts from) is   *)
(* the record [int |-> n], so that isinstance(other, int) is a test on the *)
(* record's fields.  A call that can raise returns [err |-> message, ...]  *)
(* with err = NoError when it returns normally.                            *)
(*                                                                         *)
(* Python integers are unbounded; the inputs below are chosen so that no   *)
(* intermediate value leaves the range TLC's integers cover, which limits  *)
(* the valid exponents that are exercised to 8 * 1 .. 8 * MaxExpBytes.     *)
(***************************************************************************)
EXTENDS Integers, Sequences, FiniteSets, TLC

VARIABLES
    pc,       \* where the caller stands: "start", "held", "pooled", "summed",
              \* "built", "encoded", "decoded", "added", "tallied", "failed"
    called,   \* the operation that was called last
    params,   \* the arguments of the last constructor, generator or + call
    plain,    \* the plaintext the parties' shares stand for, computed exactly
    parties,  \* the share each party holds
    trail,    \* the steps the parties took on their shares
    agg,      \* the aggregate share of the last sum or addition
    out,      \* the integer returned by the last to_int
    obj,      \* the share built by the constructor
    other,    \* the second operand of an addition, or a decoded share
    wire,     \* an encoded share
    pool,     \* the partial aggregates of a reconstruction in free order
    err       \* the message of the error the last call raised

vars == <<pc, called, params, plain, parties, trail, agg, out, obj, other, wire, pool, err>>

(***************************************************************************)
(* Bounds of the exploration.                                              *)
(***************************************************************************)
MaxExpBytes == 2
MaxQuantity == 3
MaxSteps == 2
DrawWraps == 1

(***************************************************************************)
(* Error messages raised by the source.                                    *)
(***************************************************************************)
NoError == "none"
ExponentError == "exponent must be a positive multiple of 8 that is at most 128"
RangeError == "value is not in range that can be represented using supplied parameters"
EncodingError == "invalid exponent in binary encoding of share"
CompatibilityError == "shares must have compatible parameters to be added"
ScalarTypeError == "scalar must be an integer"
NegativeScalarError == "shares of unsigned integers cannot be multiplied by a negative scalar"
IndexError == "index out of range"
OverflowError == "int too big to convert"
AttributeError == "object has no attribute"
RecursionError == "maximum recursion depth exceeded"
PaddingError == "Incorrect padding"
DataCharactersError == "Invalid base64-encoded string: number of data characters cannot be 1 more than a multiple of 4"
AsciiError == "string argument should contain only ASCII characters"

Raise(msg) == [err |-> msg]
Return(v) == [err |-> NoError, val |-> v]

(***************************************************************************)
(* Python values: an int is [int |-> n], a float is [float |-> n], a share *)
(* is [value, exponent, signed].                                           *)
(***************************************************************************)
PyInt(n) == [int |-> n]
PyFloat(n) == [float |-> n]
IsPyInt(x) == DOMAIN x = {"int"}
IsShare(x) == DOMAIN x = {"value", "exponent", "signed"}

(***************************************************************************)
(* A range check that lets the upper limit itself through.                 *)
(***************************************************************************)
value_from_parameters_inclusive(value, exponent, signed) ==
    IF ~(1 <= exponent /\ exponent <= 128) \/ exponent % 8 # 0
    THEN Raise(ExponentError)
    ELSE LET minimum == IF signed THEN -(2 ^ (exponent - 1)) ELSE 0
             maximum == 2 ^ (IF signed THEN exponent - 1 ELSE exponent)
         IN  IF ~(minimum <= value /\ value <= maximum)
             THEN Raise(RangeError)
             ELSE Return(value + (IF signed THEN maximum ELSE 0))

(***************************************************************************)
(* share._value_from_parameters: the exponent is checked first, then the   *)
(* range of the value; the result is the non-negative representation.      *)
(***************************************************************************)
_value_from_parameters(value, exponent, signed) ==
    IF ~(1 <= exponent /\ exponent <= 128) \/ exponent % 8 # 0
    THEN Raise(ExponentError)
    ELSE LET minimum == IF signed THEN -(2 ^ (exponent - 1)) ELSE 0
             maximum == 2 ^ (IF signed THEN exponent - 1 ELSE exponent)
         IN  IF ~(minimum <= value /\ value < maximum)
             THEN Raise(RangeError)
             ELSE Return(value + (IF signed THEN maximum ELSE 0))

(***************************************************************************)
(* share._from_parameters: construction without any check.                 *)
(***************************************************************************)
_from_parameters(value, exponent, signed) ==
    [value |-> value, exponent |-> exponent, signed |-> signed]

(***************************************************************************)
(* share.__init__: share(value, exponent, signed).                         *)
(***************************************************************************)
__init__(value, exponent, signed) ==
    LET r == _value_from_parameters(value, exponent, signed)
    IN  IF r.err # NoError
        THEN Raise(r.err)
        ELSE Return([value |-> r.val, exponent |-> exponent, signed |-> signed])

(***************************************************************************)
(* An addition that does not put the offset term back.                     *)
(***************************************************************************)
add_offset_dropped(self, rhs) ==
    IF IsPyInt(rhs) /\ rhs.int = 0
    THEN Return(self)
    ELSE IF ~IsShare(rhs)
    THEN Raise(AttributeError)
    ELSE IF self.exponent = rhs.exponent /\ self.signed = rhs.signed
    THEN Return(_from_parameters(
             (self.value + rhs.value) % (2 ^ self.exponent),
             self.exponent,
             self.signed))
    ELSE Raise(CompatibilityError)

(***************************************************************************)
(* An addition that compares the exponents only.                           *)
(***************************************************************************)
add_exponent_only(self, rhs) ==
    IF IsPyInt(rhs) /\ rhs.int = 0
    THEN Return(self)
    ELSE IF ~IsShare(rhs)
    THEN Raise(AttributeError)
    ELSE IF self.exponent = rhs.exponent
    THEN Return(_from_parameters(
             (self.value + rhs.value
                + (IF self.signed THEN 2 ^ (self.exponent - 1) ELSE 0))
               % (2 ^ self.exponent),
             self.exponent,
             self.signed))
    ELSE Raise(CompatibilityError)

(***************************************************************************)
(* share.__add__: the integer 0 is the identity; two shares are added only *)
(* when their parameters agree, and one offset term is put back.           *)
(***************************************************************************)
__add__(self, rhs) ==
    IF IsPyInt(rhs) /\ rhs.int = 0
    THEN Return(self)
    ELSE IF ~IsShare(rhs)
    THEN Raise(AttributeError)
    ELSE IF self.exponent = rhs.exponent /\ self.signed = rhs.signed
    THEN Return(_from_parameters(
             (self.value + rhs.value
                + (IF self.signed THEN 2 ^ (self.exponent - 1) ELSE 0))
               % (2 ^ self.exponent),
             self.exponent,
             self.signed))
    ELSE Raise(CompatibilityError)

(***************************************************************************)
(* share.__radd__: 0 + share is the share; otherwise other + self.         *)
(***************************************************************************)
__radd__(self, lhs) ==
    IF IsPyInt(lhs) /\ lhs.int = 0
    THEN Return(self)
    ELSE IF ~IsShare(lhs)
    THEN Raise(RecursionError)
    ELSE __add__(lhs, self)

(***************************************************************************)
(* The expression  x + y  as Python evaluates it for ints and shares.      *)
(***************************************************************************)
Plus(x, y) ==
    IF IsShare(x) THEN __add__(x, y)
    ELSE IF IsShare(y) THEN __radd__(y, x)
    ELSE Return(PyInt(x.int + y.int))

Abs(n) == IF n < 0 THEN -n ELSE n

(***************************************************************************)
(* A multiplication that compensates one offset term too many.             *)
(***************************************************************************)
mul_offset_surplus(self, scalar) ==
    IF ~IsPyInt(scalar)
    THEN Raise(ScalarTypeError)
    ELSE IF ~self.signed /\ scalar.int < 0
    THEN Raise(NegativeScalarError)
    ELSE LET offset == IF self.signed
                       THEN Abs(scalar.int) * (2 ^ (self.exponent - 1))
                       ELSE 0
         IN  Return(_from_parameters(
                 ((self.value * scalar.int) + offset) % (2 ^ self.exponent),
                 self.exponent,
                 self.signed))

(***************************************************************************)
(* A multiplication that does not compensate the surplus offset terms.     *)
(***************************************************************************)
mul_offset_dropped(self, scalar) ==
    IF ~IsPyInt(scalar)
    THEN Raise(ScalarTypeError)
    ELSE IF ~self.signed /\ scalar.int < 0
    THEN Raise(NegativeScalarError)
    ELSE Return(_from_parameters(
             (self.value * scalar.int) % (2 ^ self.exponent),
             self.exponent,
             self.signed))

(***************************************************************************)
(* A multiplication that loses the sign of the scalar.                     *)
(***************************************************************************)
mul_sign_dropped(self, scalar) ==
    IF ~IsPyInt(scalar)
    THEN Raise(ScalarTypeError)
    ELSE IF ~self.signed /\ scalar.int < 0
    THEN Raise(NegativeScalarError)
    ELSE LET offset == IF self.signed
                       THEN (Abs(scalar.int) - 1) * (2 ^ (self.exponent - 1))
                       ELSE 0
         IN  Return(_from_parameters(
                 ((self.value * Abs(scalar.int)) + offset) % (2 ^ self.exponent),
                 self.exponent,
                 self.signed))

(***************************************************************************)
(* share.__mul__: multiplication by an integer scalar; for a signed share  *)
(* the (|scalar| - 1) surplus offset terms are compensated.                *)
(***************************************************************************)
__mul__(self, scalar) ==
    IF ~IsPyInt(scalar)
    THEN Raise(ScalarTypeError)
    ELSE IF ~self.signed /\ scalar.int < 0
    THEN Raise(NegativeScalarError)
    ELSE LET offset == IF self.signed
                       THEN (Abs(scalar.int) - 1) * (2 ^ (self.exponent - 1))
                       ELSE 0
         IN  Return(_from_parameters(
                 ((self.value * scalar.int) + offset) % (2 ^ self.exponent),
                 self.exponent,
                 self.signed))

(***************************************************************************)
(* share.__rmul__: scalar * share.                                         *)
(***************************************************************************)
__rmul__(self, scalar) == __mul__(self, scalar)

(***************************************************************************)
(* share.to_int: the integer a fully reconstructed aggregate stands for.   *)
(***************************************************************************)
to_int(self) ==
    IF self.signed THEN self.value - (2 ^ (self.exponent - 1)) ELSE self.value

(***************************************************************************)
(* int.to_bytes(length, 'little') and int.from_bytes(bs, 'little').        *)
(***************************************************************************)
IntToBytes(n, length) ==
    IF n < 0 \/ n >= 256 ^ length
    THEN Raise(OverflowError)
    ELSE Return([i \in 1..length |-> (n \div (256 ^ (i - 1))) % 256])

RECURSIVE IntFromBytes(_)
IntFromBytes(bs) ==
    IF Len(bs) = 0 THEN 0 ELSE bs[1] + 256 * IntFromBytes(Tail(bs))

(***************************************************************************)
(* An encoder that packs the exponent itself, not exponent - 1.            *)
(***************************************************************************)
to_bytes_header_shifted(self) ==
    LET header == (self.exponent * 2) + (IF self.signed THEN 1 ELSE 0)
        body == IntToBytes(self.value, self.exponent \div 8)
    IN  IF body.err # NoError
        THEN Raise(body.err)
        ELSE Return(<<header>> \o body.val)

(***************************************************************************)
(* share.to_bytes: a header byte that packs exponent and signed, then the  *)
(* value in exponent // 8 little-endian bytes.                             *)
(***************************************************************************)
to_bytes(self) ==
    LET header == ((self.exponent - 1) * 2) + (IF self.signed THEN 1 ELSE 0)
        body == IntToBytes(self.value, self.exponent \div 8)
    IN  IF body.err # NoError
        THEN Raise(body.err)
        ELSE Return(<<header>> \o body.val)

(***************************************************************************)
(* share.from_bytes: the exponent is read from the header and checked; the *)
(* value is read from all the bytes that follow the header.                *)
(***************************************************************************)
from_bytes(bs) ==
    IF Len(bs) = 0
    THEN Raise(IndexError)
    ELSE LET exponent == (bs[1] \div 2) + 1
         IN  IF exponent <= 0 \/ exponent % 8 # 0
             THEN Raise(EncodingError)
             ELSE Return(_from_parameters(
                      IntFromBytes(Tail(bs)),
                      exponent,
                      bs[1] % 2 # 0))

(***************************************************************************)
(* base64.standard_b64encode / standard_b64decode.  A str is the sequence  *)
(* of the code points of its characters (ord(c) of each c), a bytes object *)
(* the sequence of its bytes.  B64Alphabet is                              *)
(* "ABCDEFGHIJKLMNOPQRSTUVWXYZabcdefghijklmnopqrstuvwxyz0123456789+/".     *)
(***************************************************************************)
B64Alphabet ==
    << 65, 66, 67, 68, 69, 70, 71, 72, 73, 74, 75, 76, 77,
       78, 79, 80, 81, 82, 83, 84, 85, 86, 87, 88, 89, 90,
       97, 98, 99, 100, 101, 102, 103, 104, 105, 106, 107, 108, 109,
       110, 111, 112, 113, 114, 115, 116, 117, 118, 119, 120, 121, 122,
       48, 49, 50, 51, 52, 53, 54, 55, 56, 57, 43, 47 >>

B64Pad == 61

B64Char(sextet) == B64Alphabet[sextet + 1]

B64Index(c) == (CHOOSE i \in 1..64 : B64Alphabet[i] = c) - 1

RECURSIVE standard_b64encode(_)
standard_b64encode(bs) ==
    IF Len(bs) = 0 THEN <<>>
    ELSE IF Len(bs) = 1 THEN
        << B64Char(bs[1] \div 4), B64Char((bs[1] % 4) * 16), B64Pad, B64Pad >>
    ELSE IF Len(bs) = 2 THEN
        << B64Char(bs[1] \div 4),
           B64Char((bs[1] % 4) * 16 + bs[2] \div 16),
           B64Char((bs[2] % 16) * 4),
           B64Pad >>
    ELSE
        << B64Char(bs[1] \div 4),
           B64Char((bs[1] % 4) * 16 + bs[2] \div 16),
           B64Char((bs[2] % 16) * 4 + bs[3] \div 64),
           B64Char(bs[3] % 64) >>
        \o standard_b64encode(SubSeq(bs, 4, Len(bs)))

IsB64Char(c) == \E i \in 1..64 : B64Alphabet[i] = c

(***************************************************************************)
(* The ASCII characters, control characters included: a str with any other *)
(* character cannot be converted to bytes by base64.b64decode.             *)
(***************************************************************************)
AsciiChars == 0..127

(***************************************************************************)
(* binascii.a2b_base64 without strict mode, which base64.b64decode calls   *)
(* when validate is False: characters outside the alphabet are discarded;  *)
(* a "=" counts as padding only after two or more characters of a quad,    *)
(* and the padding that completes the quad ends the decoding; text that    *)
(* ends inside a quad is an error.                                         *)
(***************************************************************************)
RECURSIVE a2b_base64(_, _, _, _, _)
a2b_base64(s, quad_pos, leftchar, pads, data) ==
    IF Len(s) = 0
    THEN IF quad_pos = 0 THEN Return(data)
         ELSE IF quad_pos = 1 THEN Raise(DataCharactersError)
         ELSE Raise(PaddingError)
    ELSE IF s[1] = B64Pad
    THEN IF quad_pos >= 2 /\ quad_pos + pads + 1 >= 4
         THEN Return(data)
         ELSE a2b_base64(Tail(s), quad_pos, leftchar,
                         IF quad_pos >= 2 THEN pads + 1 ELSE pads, data)
    ELSE IF ~IsB64Char(s[1])
    THEN a2b_base64(Tail(s), quad_pos, leftchar, pads, data)
    ELSE LET this_ch == B64Index(s[1])
         IN  IF quad_pos = 0
             THEN a2b_base64(Tail(s), 1, this_ch, 0, data)
             ELSE IF quad_pos = 1
             THEN a2b_base64(Tail(s), 2, this_ch % 16, 0,
                             Append(data, leftchar * 4 + this_ch \div 16))
             ELSE IF quad_pos = 2
             THEN a2b_base64(Tail(s), 3, this_ch % 4, 0,
                             Append(data, leftchar * 16 + this_ch \div 4))
             ELSE a2b_base64(Tail(s), 0, 0, 0,
                             Append(data, leftchar * 64 + this_ch))

standard_b64decode(s) ==
    IF \E i \in 1..Len(s) : s[i] \notin AsciiChars
    THEN Raise(AsciiError)
    ELSE a2b_base64(s, 0, 0, 0, <<>>)

(***************************************************************************)
(* share.to_base64 and share.from_base64.                                  *)
(***************************************************************************)
to_base64(self) ==
    LET bs == to_bytes(self)
    IN  IF bs.err # NoError THEN Raise(bs.err)
        ELSE Return(standard_b64encode(bs.val))

from_base64(s) ==
    LET bs == standard_b64decode(s)
    IN  IF bs.err # NoError THEN Raise(bs.err)
        ELSE from_bytes(bs.val)

(***************************************************************************)
(* shares(value, quantity, exponent, signed).  draws[k] is the integer     *)
(* int.from_bytes(secrets.token_bytes(exponent), 'little') of the k-th     *)
(* iteration of the loop.                                                  *)
(***************************************************************************)
RECURSIVE shares_loop(_, _, _, _, _)
shares_loop(n, draws, exponent, signed, offset) ==
    IF n <= 0
    THEN [ss |-> <<>>, t |-> 0]
    ELSE LET before == shares_loop(n - 1, draws, exponent, signed, offset)
             v == (draws[n] + offset) % (2 ^ exponent)
         IN  [ss |-> Append(before.ss, _from_parameters(v, exponent, signed)),
              t |-> (before.t + v) % (2 ^ exponent)]

(***************************************************************************)
(* A generator that never restores the offset term of the last share.      *)
(***************************************************************************)
shares_parity_dropped(value, quantity, exponent, signed, draws) ==
    LET r == _value_from_parameters(value, exponent, signed)
    IN  IF r.err # NoError
        THEN Raise(r.err)
        ELSE LET offset == IF signed THEN 2 ^ (exponent - 1) ELSE 0
                 loop == shares_loop(quantity - 1, draws, exponent, signed, offset)
                 last == _from_parameters(
                             (r.val + ((2 ^ exponent) - loop.t)) % (2 ^ exponent),
                             exponent,
                             signed)
             IN  Return(Append(loop.ss, last))

(***************************************************************************)
(* A generator whose last share does not cancel the random shares.         *)
(***************************************************************************)
shares_unbalanced(value, quantity, exponent, signed, draws) ==
    LET r == _value_from_parameters(value, exponent, signed)
    IN  IF r.err # NoError
        THEN Raise(r.err)
        ELSE LET offset == IF signed THEN 2 ^ (exponent - 1) ELSE 0
                 loop == shares_loop(quantity - 1, draws, exponent, signed, offset)
                 last == _from_parameters(
                             (r.val + (IF quantity % 2 = 0 THEN offset ELSE 0))
                               % (2 ^ exponent),
                             exponent,
                             signed)
             IN  Return(Append(loop.ss, last))

shares(value, quantity, exponent, signed, draws) ==
    LET r == _value_from_parameters(value, exponent, signed)
    IN  IF r.err # NoError
        THEN Raise(r.err)
        ELSE LET offset == IF signed THEN 2 ^ (exponent - 1) ELSE 0
                 loop == shares_loop(quantity - 1, draws, exponent, signed, offset)
                 last == _from_parameters(
                             (r.val
                                + ((2 ^ exponent) - loop.t)
                                + (IF quantity % 2 = 0 THEN offset ELSE 0))
                               % (2 ^ exponent),
                             exponent,
                             signed)
             IN  Return(Append(loop.ss, last))

(***************************************************************************)
(* The builtin sum(): a left fold with + that starts from the integer 0.   *)
(***************************************************************************)
RECURSIVE SumFrom(_, _)
SumFrom(acc, xs) ==
    IF Len(xs) = 0 THEN Return(acc)
    ELSE LET r == Plus(acc, xs[1])
         IN  IF r.err # NoError THEN r ELSE SumFrom(r.val, Tail(xs))

sum(xs) == SumFrom(PyInt(0), xs)

(***************************************************************************)
(* Inputs of the exploration.                                              *)
(***************************************************************************)
None == [none |-> TRUE]

ValidExponents == {8 * k : k \in 1..MaxExpBytes}

ExponentInputs == ValidExponents \cup {-8, 0, 4, 12, 129, 136}

QuantityInputs == 0..MaxQuantity

SecretInputs(exponent, signed) ==
    IF signed
    THEN {-(2 ^ (exponent - 1)), -65, 2, 65, 2 ^ (exponent - 1) - 1}
    ELSE {0, 2, 123, 129, 2 ^ exponent - 1}

ValueInputs(exponent, signed) ==
    IF exponent \in ValidExponents
    THEN SecretInputs(exponent, signed)
           \cup (IF signed
                 THEN {-(2 ^ (exponent - 1)) - 1, 2 ^ (exponent - 1)}
                 ELSE {-1, 2 ^ exponent})
    ELSE {0, 123}

AddendInputs(exponent, signed) ==
    IF signed THEN {2, -(2 ^ (exponent - 1))} ELSE {123, 2 ^ exponent - 1}

ScalarInputs == {PyInt(c) : c \in {-2, -1, 0, 2, 3}} \cup {PyFloat(2)}

DrawInputs(exponent) ==
    IF exponent \in ValidExponents
    THEN {2 ^ exponent - 1, 2 ^ exponent + 2 ^ (exponent - 1) + 1}
    ELSE {0}

FreshDrawInputs(exponent) == {1, 2 ^ exponent + 2 ^ (exponent - 1)}

DrawCount(quantity) == IF quantity >= 1 THEN quantity - 1 ELSE 0

ByteInputs == {0, 1, 255}

HeaderInputs == {0, 14, 15, 22, 30, 31}

PayloadInputs == UNION {[1..n -> ByteInputs] : n \in 0..3}

(***************************************************************************)
(* Initially nothing has been called.                                      *)
(***************************************************************************)
Init ==
    /\ pc = "start"
    /\ called = "none"
    /\ params = None
    /\ plain = 0
    /\ parties = <<>>
    /\ trail = <<>>
    /\ agg = None
    /\ out = None
    /\ obj = None
    /\ other = None
    /\ wire = None
    /\ pool = <<>>
    /\ err = NoError

Fail(op, msg) ==
    /\ pc' = "failed"
    /\ called' = op
    /\ err' = msg

(***************************************************************************)
(* The caller splits an integer: shares(value, quantity, exponent, signed).*)
(***************************************************************************)
Generate ==
    /\ pc = "start"
    /\ \E exponent \in ExponentInputs, signed \in BOOLEAN, quantity \in QuantityInputs :
         \E value \in ValueInputs(exponent, signed),
            draws \in [1..DrawCount(quantity) -> DrawInputs(exponent)] :
            LET r == shares(value, quantity, exponent, signed, draws)
            IN  /\ params' = [value |-> value, quantity |-> quantity,
                              exponent |-> exponent, signed |-> signed]
                /\ IF r.err # NoError
                   THEN /\ Fail("shares", r.err)
                        /\ UNCHANGED <<plain, parties>>
                   ELSE /\ pc' = "held"
                        /\ called' = "shares"
                        /\ err' = NoError
                        /\ plain' = value
                        /\ parties' = r.val
    /\ UNCHANGED <<trail, agg, out, obj, other, wire, pool>>

(***************************************************************************)
(* Every party multiplies its share by the same scalar, written on either  *)
(* side of the share.                                                      *)
(***************************************************************************)
StepMul ==
    /\ pc = "held"
    /\ Len(trail) < MaxSteps
    /\ \E scalar \in ScalarInputs, side \in {"left", "right"} :
         LET rs == [i \in 1..Len(parties) |->
                      IF side = "left"
                      THEN __rmul__(parties[i], scalar)
                      ELSE __mul__(parties[i], scalar)]
         IN  IF \E i \in 1..Len(parties) : rs[i].err # NoError
             THEN /\ Fail("step_mul", rs[CHOOSE i \in 1..Len(parties) : rs[i].err # NoError].err)
                  /\ UNCHANGED <<plain, parties, trail>>
             ELSE /\ pc' = "held"
                  /\ called' = "step_mul"
                  /\ err' = NoError
                  /\ plain' = plain * scalar.int
                  /\ parties' = [i \in 1..Len(parties) |-> rs[i].val]
                  /\ trail' = Append(trail, [op |-> "mul", arg |-> scalar.int])
    /\ UNCHANGED <<params, agg, out, obj, other, wire, pool>>

(***************************************************************************)
(* Every party adds to its share its own share of a fresh share set that   *)
(* shares() made, with the same parameters, of another value.              *)
(***************************************************************************)
StepAdd ==
    /\ pc = "held"
    /\ Len(trail) < MaxSteps
    /\ \E y \in AddendInputs(params.exponent, params.signed),
          draws \in [1..DrawCount(params.quantity) -> FreshDrawInputs(params.exponent)] :
         LET fresh == shares(y, params.quantity, params.exponent, params.signed, draws).val
             rs == [i \in 1..Len(parties) |-> __add__(parties[i], fresh[i])]
         IN  /\ pc' = "held"
             /\ called' = "step_add"
             /\ err' = NoError
             /\ plain' = plain + y
             /\ parties' = [i \in 1..Len(parties) |-> rs[i].val]
             /\ trail' = Append(trail, [op |-> "add", arg |-> y])
    /\ UNCHANGED <<params, agg, out, obj, other, wire, pool>>

(***************************************************************************)
(* The parties' shares are added with sum() and the integer is extracted.  *)
(***************************************************************************)
Reconstruct ==
    /\ pc = "held"
    /\ LET r == sum(parties)
       IN  /\ pc' = "summed"
           /\ called' = "sum"
           /\ agg' = r.val
           /\ out' = to_int(r.val)
    /\ UNCHANGED <<params, plain, parties, trail, obj, other, wire, pool, err>>

(***************************************************************************)
(* Reconstruction in any order and grouping: the shares, with or without   *)
(* the integer 0, are put in a pool; any two members are added, in either  *)
(* order, until one is left.                                               *)
(***************************************************************************)
Gather ==
    /\ pc = "held"
    /\ \E zero \in BOOLEAN :
         pool' = IF zero THEN <<PyInt(0)>> \o parties ELSE parties
    /\ pc' = "pooled"
    /\ called' = "gather"
    /\ UNCHANGED <<params, plain, parties, trail, agg, out, obj, other, wire, err>>

Remove(seq, j) == [k \in 1..(Len(seq) - 1) |-> IF k < j THEN seq[k] ELSE seq[k + 1]]

Combine ==
    /\ pc = "pooled"
    /\ \E i \in 1..Len(pool), j \in 1..Len(pool) :
         /\ i # j
         /\ LET r == Plus(pool[i], pool[j])
            IN  IF r.err # NoError
                THEN /\ Fail("combine", r.err)
                     /\ UNCHANGED pool
                ELSE /\ pc' = "pooled"
                     /\ called' = "combine"
                     /\ err' = NoError
                     /\ pool' = Remove([pool EXCEPT ![i] = r.val], j)
    /\ UNCHANGED <<params, plain, parties, trail, agg, out, obj, other, wire>>

Extract ==
    /\ pc = "pooled"
    /\ Len(pool) = 1
    /\ IsShare(pool[1])
    /\ pc' = "summed"
    /\ called' = "to_int"
    /\ agg' = pool[1]
    /\ out' = to_int(pool[1])
    /\ UNCHANGED <<params, plain, parties, trail, obj, other, wire, pool, err>>

(***************************************************************************)
(* The caller builds one share: share(value, exponent, signed).            *)
(***************************************************************************)
Construct ==
    /\ pc = "start"
    /\ \E exponent \in ExponentInputs, signed \in BOOLEAN :
         \E value \in ValueInputs(exponent, signed) :
            LET r == __init__(value, exponent, signed)
            IN  /\ params' = [value |-> value, quantity |-> 1,
                              exponent |-> exponent, signed |-> signed]
                /\ IF r.err # NoError
                   THEN /\ Fail("share", r.err)
                        /\ UNCHANGED obj
                   ELSE /\ pc' = "built"
                        /\ called' = "share"
                        /\ err' = NoError
                        /\ obj' = r.val
    /\ UNCHANGED <<plain, parties, trail, agg, out, other, wire, pool>>

(***************************************************************************)
(* The built share is added to a second share, on either side.             *)
(***************************************************************************)
AddPair ==
    /\ pc = "built"
    /\ \E exponent \in ValidExponents, signed \in BOOLEAN, objleft \in BOOLEAN :
         \E value \in SecretInputs(exponent, signed) :
            LET b == __init__(value, exponent, signed).val
                x == IF objleft THEN obj ELSE b
                y == IF objleft THEN b ELSE obj
                r == Plus(x, y)
            IN  /\ other' = b
                /\ params' = [left |-> x, right |-> y]
                /\ IF r.err # NoError
                   THEN /\ Fail("add", r.err)
                        /\ UNCHANGED agg
                   ELSE /\ pc' = "added"
                        /\ called' = "add"
                        /\ err' = NoError
                        /\ agg' = r.val
    /\ UNCHANGED <<plain, parties, trail, out, obj, wire, pool>>

(***************************************************************************)
(* The built share is encoded, as bytes or as Base64 text.                 *)
(***************************************************************************)
Encode ==
    /\ pc = "built"
    /\ \E fmt \in {"bytes", "base64"} :
         LET r == IF fmt = "bytes" THEN to_bytes(obj) ELSE to_base64(obj)
         IN  IF r.err # NoError
             THEN /\ Fail("to_" \o fmt, r.err)
                  /\ UNCHANGED wire
             ELSE /\ pc' = "encoded"
                  /\ called' = "to_" \o fmt
                  /\ err' = NoError
                  /\ wire' = [fmt |-> fmt, data |-> r.val]
    /\ UNCHANGED <<params, plain, parties, trail, agg, out, obj, other, pool>>

(***************************************************************************)
(* The ways a Base64 text may reach the decoder: as the encoder wrote it,  *)
(* with a line end, with a blank or a "=" inside the first quad, without   *)
(* its padding, with surplus padding, with a control character in front or *)
(* a character that is not ASCII at the end.  The text has four characters *)
(* or more.                                                                *)
(***************************************************************************)
IsNotPad(c) == c # B64Pad

TextInputs(text) ==
    { text,
      text \o <<10>>,                                          \* "\n"
      <<text[1], text[2], 32>> \o SubSeq(text, 3, Len(text)),  \* " "
      <<text[1], text[2], B64Pad>> \o SubSeq(text, 3, Len(text)),
      SelectSeq(text, IsNotPad),
      text \o <<B64Pad, B64Pad>>,
      <<11>> \o text,                                          \* "\x0b"
      text \o <<233>> }                                        \* "\xe9"

(***************************************************************************)
(* An encoding arrives from elsewhere: any header byte and any payload, as *)
(* bytes or as Base64 text.                                                *)
(***************************************************************************)
Receive ==
    /\ pc = "start"
    /\ \E header \in HeaderInputs, payload \in PayloadInputs, fmt \in {"bytes", "base64"} :
         \E data \in IF fmt = "bytes"
                      THEN {<<header>> \o payload}
                      ELSE TextInputs(standard_b64encode(<<header>> \o payload)) :
            wire' = [fmt |-> fmt, data |-> data]
    /\ pc' = "encoded"
    /\ called' = "receive"
    /\ UNCHANGED <<params, plain, parties, trail, agg, out, obj, other, pool, err>>

(***************************************************************************)
(* The encoding is decoded: share.from_bytes or share.from_base64.         *)
(***************************************************************************)
Decode ==
    /\ pc = "encoded"
    /\ LET r == IF wire.fmt = "bytes" THEN from_bytes(wire.data) ELSE from_base64(wire.data)
       IN  IF r.err # NoError
           THEN /\ Fail("from_" \o wire.fmt, r.err)
                /\ UNCHANGED other
           ELSE /\ pc' = "decoded"
                /\ called' = "from_" \o wire.fmt
                /\ err' = NoError
                /\ other' = r.val
    /\ UNCHANGED <<params, plain, parties, trail, agg, out, obj, wire, pool>>

Next ==
    \/ Generate
    \/ StepMul
    \/ StepAdd
    \/ Reconstruct
    \/ Construct
    \/ AddPair
    \/ Encode
    \/ Receive
    \/ Decode

Spec == Init /\ [][Next]_vars

(***************************************************************************)
(* Reconstruction in free order, right after the shares were made.         *)
(***************************************************************************)
NextAnyOrder ==
    \/ Generate
    \/ Reconstruct
    \/ Gather
    \/ Combine
    \/ Extract

SpecAnyOrder == Init /\ [][NextAnyOrder]_vars

(***************************************************************************)
(* The distribution of one share.  A draw is uniform over the integers     *)
(* below 256^exponent, a multiple of 2^exponent; the tally runs over the   *)
(* integers below DrawWraps * 2^exponent, and counts the outcomes of the   *)
(* quantity - 1 draws that put the internal value x at a position of the   *)
(* sequence shares() returns.                                              *)
(***************************************************************************)
UniformDraws(exponent) == 0..(DrawWraps * (2 ^ exponent) - 1)

Outcomes(value, quantity, exponent, signed, position, x) ==
    Cardinality({draws \in [1..(quantity - 1) -> UniformDraws(exponent)] :
                   shares(value, quantity, exponent, signed, draws).val[position].value = x})

TallyExponents == {8, 16}

TallyQuantities(exponent) == IF exponent = 8 THEN {2, 3} ELSE {2}

TallySecrets(exponent, signed, quantity) ==
    IF signed
    THEN {<<-(2 ^ (exponent - 1)), 2 ^ (exponent - 1) - 1>>}
           \cup (IF exponent = 8 /\ quantity = 2 THEN {<<65, -1>>} ELSE {})
    ELSE {<<0, 2 ^ exponent - 1>>}
           \cup (IF exponent = 8 /\ quantity = 2 THEN {<<129, 2>>} ELSE {})

TallyValues(exponent, quantity) ==
    IF exponent = 8 /\ quantity = 2
    THEN 0..(2 ^ exponent - 1)
    ELSE {2 ^ (exponent - 1) - 1, 2 ^ exponent - 1}

(***************************************************************************)
(* The outcomes that give the value x at a position are counted for two    *)
(* secrets.                                                                *)
(***************************************************************************)
Tally ==
    /\ pc = "start"
    /\ \E exponent \in TallyExponents, signed \in BOOLEAN :
         \E quantity \in TallyQuantities(exponent) :
         \E secrets \in TallySecrets(exponent, signed, quantity),
            position \in 1..quantity,
            x \in TallyValues(exponent, quantity) :
            /\ params' = [value |-> secrets[1], second |-> secrets[2],
                          quantity |-> quantity, exponent |-> exponent,
                          signed |-> signed, position |-> position, x |-> x]
            /\ out' = [first |-> Outcomes(secrets[1], quantity, exponent, signed, position, x),
                       second |-> Outcomes(secrets[2], quantity, exponent, signed, position, x)]
    /\ pc' = "tallied"
    /\ called' = "tally"
    /\ UNCHANGED <<plain, parties, trail, agg, obj, other, wire, pool, err>>

NextUniform == Tally

SpecUniform == Init /\ [][NextUniform]_vars

(***************************************************************************)
(* The representable range and the wrap-around into it.                    *)
(***************************************************************************)
Representable(n, exponent, signed) ==
    IF signed
    THEN -(2 ^ (exponent - 1)) <= n /\ n <= 2 ^ (exponent - 1) - 1
    ELSE 0 <= n /\ n <= 2 ^ exponent - 1

Wrapped(n, exponent, signed) ==
    IF signed
    THEN ((n + 2 ^ (exponent - 1)) % (2 ^ exponent)) - 2 ^ (exponent - 1)
    ELSE n % (2 ^ exponent)

RECURSIVE TrailTotal(_)
TrailTotal(steps) ==
    IF Len(steps) = 0 THEN 0 ELSE steps[1].arg + TrailTotal(Tail(steps))

OnlyAdds(steps) == \A k \in 1..Len(steps) : steps[k].op = "add"

(***************************************************************************)
(* C1: for a quantity of at least two, the shares that shares() returned,  *)
(* added in any order and grouping, also starting from the integer 0, give *)
(* a share whose to_int is exactly the value that was split.               *)
(***************************************************************************)
C1_RoundTrip ==
    (pc = "summed" /\ params.quantity >= 2) => out = params.value

C1_Witness ==
    /\ pc = "summed"
    /\ called = "to_int"
    /\ params.quantity = 3
    /\ params.signed
    /\ params.value = -65
    /\ out = -65

(***************************************************************************)
(* C2: when two or more share sets of the same quantity, exponent and      *)
(* signed flag are added index-wise and the resulting shares are added     *)
(* together, to_int gives the sum of the values wrapped into the range.    *)
(***************************************************************************)
C2_SumOfShareSets ==
    (pc = "summed" /\ params.quantity >= 2 /\ Len(trail) >= 1 /\ OnlyAdds(trail))
        => out = Wrapped(params.value + TrailTotal(trail), params.exponent, params.signed)

C2_Witness ==
    /\ pc = "summed"
    /\ params = [value |-> 127, quantity |-> 3, exponent |-> 8, signed |-> TRUE]
    /\ trail = << [op |-> "add", arg |-> 2] >>
    /\ out = -127

(***************************************************************************)
(* C3: when every share of a share set of v is multiplied by the same      *)
(* scalar c, on either side, and the products are added together, to_int   *)
(* gives c * v wrapped into the range, and exactly c * v when that is in   *)
(* the range.                                                              *)
(***************************************************************************)
C3_ScalarProduct ==
    (pc = "summed" /\ params.quantity >= 2 /\ Len(trail) = 1 /\ trail[1].op = "mul")
        => LET product == trail[1].arg * params.value
           IN  /\ out = Wrapped(product, params.exponent, params.signed)
               /\ Representable(product, params.exponent, params.signed) => out = product

C3_Witness ==
    /\ pc = "summed"
    /\ params = [value |-> -65, quantity |-> 3, exponent |-> 16, signed |-> TRUE]
    /\ trail = << [op |-> "mul", arg |-> -2] >>
    /\ out = 130

(***************************************************************************)
(* C4 as stated: the two shares of shares(65, exponent=8, signed=True),    *)
(* each multiplied by -2 and then added, give a share whose to_int is -126.*)
(***************************************************************************)
C4_AsStated ==
    (/\ pc = "summed"
     /\ params = [value |-> 65, quantity |-> 2, exponent |-> 8, signed |-> TRUE]
     /\ trail = << [op |-> "mul", arg |-> -2] >>)
        => out = -126

(***************************************************************************)
(* C4: the two shares of shares(65, exponent=8, signed=True), each         *)
(* multiplied by -2 and then added, give a share whose to_int is 126,      *)
(* whatever the random draw: -130 wraps below the range to 126.            *)
(***************************************************************************)
C4_MinusTwoTimes65 ==
    (/\ pc = "summed"
     /\ params = [value |-> 65, quantity |-> 2, exponent |-> 8, signed |-> TRUE]
     /\ trail = << [op |-> "mul", arg |-> -2] >>)
        => out = 126

C4_Witness ==
    /\ pc = "summed"
    /\ params = [value |-> 65, quantity |-> 2, exponent |-> 8, signed |-> TRUE]
    /\ trail = << [op |-> "mul", arg |-> -2] >>
    /\ parties[1].value # parties[2].value
    /\ out = 126

(***************************************************************************)
(* The share objects a state holds.                                        *)
(***************************************************************************)
SharesHeld ==
    {parties[i] : i \in 1..Len(parties)}
        \cup {pool[i] : i \in {k \in 1..Len(pool) : IsShare(pool[k])}}
        \cup {x \in {agg, obj, other} : IsShare(x)}

(***************************************************************************)
(* C5 as stated: every share an operation hands back - the constructor,    *)
(* shares(), + and *, from_bytes and from_base64 on anything that decodes  *)
(* without error - has 0 <= value < 2^exponent.                            *)
(***************************************************************************)
C5_ValueInRange ==
    \A x \in SharesHeld : 0 <= x.value /\ x.value < 2 ^ x.exponent

(***************************************************************************)
(* C6: a share with a valid exponent and a value in range that is encoded  *)
(* and decoded again, as bytes or as Base64, comes back with the same      *)
(* value, exponent and signed flag; neither step fails.                    *)
(***************************************************************************)
C6_EncodingRoundTrip ==
    IsShare(obj) =>
        /\ pc = "decoded" =>
              /\ other.value = obj.value
              /\ other.exponent = obj.exponent
              /\ other.signed = obj.signed
        /\ ~(pc = "failed"
               /\ called \in {"to_bytes", "to_base64", "from_bytes", "from_base64"})

C6_Witness ==
    /\ pc = "decoded"
    /\ wire.fmt = "base64"
    /\ IsShare(obj)
    /\ obj.exponent = 16
    /\ obj.signed
    /\ obj.value = 2 ^ 16 - 1
    /\ other = obj

(***************************************************************************)
(* C8 as stated: whatever the quantity, a call of shares() that returns    *)
(* hands back exactly quantity shares, never fewer than two, each with the *)
(* requested exponent and signed flag.                                     *)
(***************************************************************************)
C8_QuantityOfShares ==
    (called = "shares" /\ pc = "held") =>
        /\ Len(parties) = params.quantity
        /\ Len(parties) >= 2
        /\ \A i \in 1..Len(parties) :
              /\ parties[i].exponent = params.exponent
              /\ parties[i].signed = params.signed

(***************************************************************************)
(* C9: share() and shares() check their parameters alike and in this       *)
(* order: an exponent that is not a multiple of 8 in 1..128 gives the      *)
(* exponent error whatever the value; otherwise a value outside the range  *)
(* gives the range error; otherwise the call succeeds and the share that   *)
(* share() built stores value + 2^(exponent-1) when signed, value when     *)
(* not, and to_int gives value back.  A failed call produces no share.     *)
(***************************************************************************)
C9_ParameterChecks ==
    called \in {"share", "shares"} =>
        LET exponent == params.exponent
            signed == params.signed
            value == params.value
            nothing == obj = None /\ parties = <<>>
        IN  IF exponent \notin {8 * k : k \in 1..16}
            THEN pc = "failed" /\ err = ExponentError /\ nothing
            ELSE IF ~Representable(value, exponent, signed)
            THEN pc = "failed" /\ err = RangeError /\ nothing
            ELSE /\ err = NoError
                 /\ called = "shares" => pc = "held" /\ Len(parties) >= 1
                 /\ called = "share" =>
                       /\ pc = "built"
                       /\ obj.value = value + (IF signed THEN 2 ^ (exponent - 1) ELSE 0)
                       /\ obj.exponent = exponent
                       /\ obj.signed = signed
                       /\ to_int(obj) = value

C9_Witness ==
    /\ pc = "failed"
    /\ called = "shares"
    /\ err = RangeError
    /\ params.signed
    /\ params.exponent = 8
    /\ params.value = 128
    /\ parties = <<>>

(***************************************************************************)
(* C10: two shares are added exactly when exponent and signed flag agree,  *)
(* and the sum then has those parameters and the value                     *)
(* (a.value + b.value + offset) mod 2^exponent; otherwise the addition     *)
(* fails with the compatibility error whichever operand is on the left,    *)
(* returns no share and leaves both operands as they were.                 *)
(***************************************************************************)
C10_Addition ==
    called = "add" =>
        LET a == params.left
            b == params.right
        IN  /\ {a, b} = {obj, other}
            /\ IF a.exponent = b.exponent /\ a.signed = b.signed
               THEN /\ pc = "added"
                    /\ err = NoError
                    /\ agg.exponent = a.exponent
                    /\ agg.signed = a.signed
                    /\ agg.value =
                         (a.value + b.value
                            + (IF a.signed THEN 2 ^ (a.exponent - 1) ELSE 0))
                           % (2 ^ a.exponent)
               ELSE /\ pc = "failed"
                    /\ err = CompatibilityError
                    /\ agg = None

C10_Witness ==
    /\ called = "add"
    /\ pc = "failed"
    /\ err = CompatibilityError
    /\ params.right = obj
    /\ params.left = other
    /\ obj.exponent = other.exponent
    /\ obj.signed
    /\ ~other.signed
    /\ agg = None

(***************************************************************************)
(* C7: a share of shares(), seen alone, tells nothing about the secret:    *)
(* at every position, the last one included, every internal value x is     *)
(* produced by the same number of outcomes of the uniform independent      *)
(* draws whatever the secret, namely by one outcome in 2^exponent.         *)
(***************************************************************************)
C7_ShareIsUniform ==
    pc = "tallied" =>
        /\ out.first = out.second
        /\ out.first * (2 ^ params.exponent)
             = Cardinality(UniformDraws(params.exponent)) ^ (params.quantity - 1)

C7_Witness ==
    /\ pc = "tallied"
    /\ params.quantity = 3
    /\ params.position = 3
    /\ params.signed
    /\ params.value # params.second
    /\ out.first > 0
    /\ out.first = out.second

(***************************************************************************)
(* The plaintext computation the parties' steps stand for: x := c * x for  *)
(* a multiplication by c, x := x + y for the addition of a share set of y. *)
(***************************************************************************)
RECURSIVE Replay(_, _)
Replay(x, steps) ==
    IF Len(steps) = 0 THEN x
    ELSE Replay(IF steps[1].op = "mul" THEN steps[1].arg * x ELSE x + steps[1].arg,
                Tail(steps))

(***************************************************************************)
(* C11: exactly one offset term survives any workflow.  After any sequence *)
(* of steps, each one either every party multiplying its share by the same *)
(* scalar or every party adding its share of a fresh share set, the        *)
(* parties' shares added together give a share whose to_int is the         *)
(* plaintext result of the same steps wrapped into the representable       *)
(* range, whatever the number, order and mix of the steps.                 *)
(***************************************************************************)
C11_Workflow ==
    (pc = "summed" /\ params.quantity >= 2)
        => /\ plain = Replay(params.value, trail)
           /\ out = Wrapped(Replay(params.value, trail), params.exponent, params.signed)

C11_Witness ==
    /\ pc = "summed"
    /\ params = [value |-> 65, quantity |-> 3, exponent |-> 8, signed |-> TRUE]
    /\ trail = << [op |-> "mul", arg |-> -2], [op |-> "add", arg |-> -128] >>
    /\ out = -2
====
